---- MODULE Spec2Model ----
(***************************************************************************)
(* The lung-scan service of src/backend/server.py (the "backend" variant,  *)
(* with the OpenRouter advisory call) and src/server.py (the "root"        *)
(* variant, with time-stamped upload names and a real PDF lookup).         *)
(*                                                                         *)
(* Flask serves every request on a thread of its own, so a handler is a    *)
(* sequence of steps that interleave with the steps of the other handler.  *)
(* A step boundary is placed wherever a handler touches something shared:  *)
(* the upload directory, the heatmap directory, the patients table, the    *)
(* wall clock, the advisory network call.  Purely local statements are     *)
(* folded into the step that precedes them.                                *)
(*                                                                         *)
(* Texts are modelled as sequences of their parts, so that "a" + b is      *)
(* <<"a", b>>.  A confidence is an integer number of hundredths.           *)
(***************************************************************************)
EXTENDS Integers, Sequences, FiniteSets, TLC

\* ---------------------------------------------------------------- bounds

\* Requests accepted in one run (all routes together).
MaxReqs == 2

\* Times the wall clock is observed to advance in one run.
MaxTicks == 1

\* The two handler threads whose steps interleave.
Workers == {1, 2}

\* ------------------------------------------------------------- constants

Variants == {"backend", "root"}

None == "None"          \* Python's None / JSON null
Absent == "<absent>"    \* a key the JSON body does not carry

SecondsPerMinute == 60

\* What a client can send as the "name" form field (Absent: not sent).
NameInputs == {"Alice", Absent}

\* What a client can send as the "file" part: a file name and the bytes.
\* IMG_A and IMG_B are two different well-formed images, "" is the empty
\* byte string.  "scan.dat" is a name whose extension OpenCV has no encoder
\* for; "" is the name of a file part sent with no file chosen.
Uploads ==
    { [filename |-> "scan.png", bytes |-> "IMG_A"],
      [filename |-> "scan.png", bytes |-> "IMG_B"],
      [filename |-> "scan.png", bytes |-> ""],
      [filename |-> "scan.dat", bytes |-> "IMG_A"],
      [filename |-> "", bytes |-> ""] }

NoFile == [filename |-> Absent, bytes |-> Absent]

\* Extensions cv2.imwrite can encode.
WritableNames == {"scan.png"}

\* ------------------------------------------------------------- variables

VARIABLES
    variant,          \* which server.py is deployed
    OPENAI_KEY,       \* backend: os.getenv("OPENAI_API_KEY")
    random,           \* the draws the random source gives next
    now,              \* datetime.now(), in seconds
    ticks,            \* how often the clock advanced
    uploads,          \* the files of directory UPLOAD: name -> bytes
    heatmaps,         \* the files of directory HEAT: name -> overlay
    reports,          \* the report_<pid>.pdf files written so far
    patients,         \* the rows of table patients, in rowid order
    sqlite_sequence,  \* AUTOINCREMENT's last id
    writer,           \* the thread holding SQLite's write lock
    req,              \* per thread: the frame of the handler it runs
    started,          \* requests accepted so far
    completed         \* Completed responses predict has returned so far

vars == << variant, OPENAI_KEY, random, now, ticks, uploads, heatmaps, reports,
           patients, sqlite_sequence, writer, req, started, completed >>

NoWriter == 0

\* ------------------------------------------------------------ file names

\* strftime("%Y%m%d%H%M%S_"): one text per second.
Stamp(t) == <<"stamp", t>>

\* strftime("%d-%m-%Y %H:%M"): one text per minute; the seconds are cut.
DateStr(t) == t \div SecondsPerMinute

\* The name under which predict stores the upload.
UploadName(v, t, filename) ==
    IF v = "root" THEN <<Stamp(t), filename>> ELSE <<filename>>

\* The client's file name at the end of a stored name.
BaseName(fname) == fname[Len(fname)]

\* ------------------------------------------------------------ image code

\* cv2.imread: the pixel grid of a well-formed image, None otherwise.
imread(bytes) ==
    CASE bytes = "IMG_A" -> "GRID_A"
      [] bytes = "IMG_B" -> "GRID_B"
      [] OTHER -> None

\* The overlay make_heatmap computes from a grid (blur, colormap, blend).
Overlay(img) == <<"0.6*", img, "+0.4*jet(blur(gray(", img, ")))">>

\* cv2.imwrite raises when the file name's extension has no encoder.
CanEncode(fname) == BaseName(fname) \in WritableNames

\* ----------------------------------------------------------- demo classifier

\* The steps into which the unit interval of random.uniform is divided.
UnitSteps == 100

Classes == <<"Normal", "Benign", "Malignant">>

\* random.choices(classes, weights=[0.5, 0.3, 0.2]) for a draw v in 0..99
\* (hundredths of the unit interval): the first class whose cumulative
\* weight exceeds the draw.
ChooseClass(v) ==
    IF v < 50 THEN Classes[1] ELSE IF v < 80 THEN Classes[2] ELSE Classes[3]

\* The interval of random.uniform for a class, in hundredths.
ConfLow(result) ==
    IF result = "Normal" THEN 70 ELSE IF result = "Benign" THEN 60 ELSE 75

\* A mutant of ConfHigh: every class gets the upper end of Normal.
ConfHighOfNormal(result) == 95

ConfHigh(result) ==
    IF result = "Normal" THEN 95 ELSE IF result = "Benign" THEN 85 ELSE 98

\* round(x, 2) of x = n / d hundredths, n and d positive: to the nearest
\* hundredth.
RoundHundredths(n, d) == (2 * n + d) \div (2 * d)

\* predict_ai for the two draws v (class) and u (position in the interval,
\* of UnitSteps): a + (b - a) * u / UnitSteps, rounded. random.uniform
\* reaches b when the sum rounds up to it, so u runs up to UnitSteps.
predict_ai(v, u) ==
    LET result == ChooseClass(v)
        a == ConfLow(result)
        b == ConfHigh(result)
    IN  [result |-> result,
         conf |-> RoundHundredths(UnitSteps * a + (b - a) * u, UnitSteps)]

\* The draws of the random source one run of the server explores.
Draws == { <<10, 0>>, <<90, UnitSteps>> }

\* Every draw: the class draw in hundredths of the unit interval, the
\* position in the interval in steps of 1 / UnitSteps.
AllDraws == (0..99) \X (0..UnitSteps)

\* ------------------------------------------------------- advisory service

\* What the advisory network call can come back with: requests.post raises,
\* or answers with a status and a body.  A body is described by what
\* r.json()["choices"][0]["message"]["content"] meets on its way.
Body(json, has_choices, choices) ==
    [json |-> json, has_choices |-> has_choices, choices |-> choices]

BodyNotJson == Body(FALSE, FALSE, <<>>)
BodyNoChoices == Body(TRUE, FALSE, <<>>)
BodyContent(c) == Body(TRUE, TRUE, <<c>>)

NetRaise(exc) == [kind |-> "raise", exc |-> exc, status |-> 0, body |-> BodyNotJson]
NetHttp(status, body) == [kind |-> "http", exc |-> "", status |-> status, body |-> body]
NoOutcome == [kind |-> "none", exc |-> "", status |-> 0, body |-> BodyNotJson]

NetOutcomes ==
    { NetRaise("ConnectionError"), NetRaise("Timeout"),
      NetHttp(500, BodyNotJson),
      NetHttp(200, BodyNotJson),
      NetHttp(200, BodyNoChoices),
      NetHttp(200, BodyContent("ADVICE")),
      NetHttp(200, BodyContent("")),
      NetHttp(200, BodyContent(None)) }

\* The result of a Python block: it raised, or it returned a value.
Raised(exc) == [raised |-> TRUE, value |-> exc]
Returned(v) == [raised |-> FALSE, value |-> v]

NotConfiguredText == "AI API Key not configured."

\* What os.getenv gives for the key: None when the variable is not set, the
\* empty string when it is set to nothing, or a key.
KeyValues == {None, "", "sk-or-key"}

\* A mutant of KeyMissing: the key is never found missing.
KeyMissingNever(key) == FALSE

\* not OPENAI_KEY: None and the empty string are both falsy.
KeyMissing(key) == key \in {None, ""}
UnavailableText == "AI Doctor temporarily unavailable."
ServiceErrorText == "AI Doctor service error."

\* A mutant of PostAndRead: the status of the answer is not looked at.
PostAndReadAnyStatus(o) ==
    IF o.kind = "raise" THEN Raised(o.exc)
    ELSE IF ~o.body.json THEN Raised("JSONDecodeError")
    ELSE IF ~o.body.has_choices THEN Raised("KeyError")
    ELSE IF Len(o.body.choices) = 0 THEN Raised("IndexError")
    ELSE Returned(o.body.choices[1])

\* The body of ai_medical_report's try block.
PostAndRead(o) ==
    IF o.kind = "raise" THEN Raised(o.exc)
    ELSE IF o.status # 200 THEN Returned(UnavailableText)
    ELSE IF ~o.body.json THEN Raised("JSONDecodeError")
    ELSE IF ~o.body.has_choices THEN Raised("KeyError")
    ELSE IF Len(o.body.choices) = 0 THEN Raised("IndexError")
    ELSE Returned(o.body.choices[1])

\* A mutant of CatchAll: the except clause is missing.
CatchNothing(res) == res

\* ai_medical_report's bare except clause.
CatchAll(res) == IF res.raised THEN Returned(ServiceErrorText) ELSE res

\* ai_medical_report from requests.post on.
TryPost(o) == CatchAll(PostAndRead(o))

\* A mutant of HistoryText: only the newest row is written out.
HistoryTextNewestOnly(rows) ==
    IF rows = <<>> THEN <<>>
    ELSE << <<rows[Len(rows)][1], " : ", rows[Len(rows)][2], "\n">> >>

\* The history transcript predict builds from the rows of its query.
HistoryText(rows) ==
    [i \in 1..Len(rows) |-> <<rows[i][1], " : ", rows[i][2], "\n">>]

\* The prompt of ai_medical_report, as the sequence of its parts.
Prompt(name, result, conf, history) ==
    << "Patient Name: ", name, "History:", history,
       "Current Result: ", result, "Confidence: ", conf, "Explain clearly:" >>

\* ------------------------------------------------------------- the table

Row(id, name, date, result, confidence, image, report) ==
    [id |-> id, name |-> name, date |-> date, result |-> result,
     confidence |-> confidence, image |-> image, report |-> report]

\* A mutant of SelectByName: the WHERE clause is missing.
SelectAnyName(table, name) ==
    [i \in 1..Len(table) |-> <<table[i].date, table[i].result>>]

\* SELECT date,result FROM patients WHERE name=?
RECURSIVE SelectByName(_, _)
SelectByName(table, name) ==
    IF table = <<>> THEN <<>>
    ELSE LET rest == SelectByName(Tail(table), name)
             r == Head(table)
         IN  IF r.name = name THEN <<(<<r.date, r.result>>)>> \o rest ELSE rest

\* os.path.join(UPLOAD, fname)
UploadPath(fname) == <<"uploads/">> \o fname

\* "heat_" + fname
HeatName(fname) == <<"heat_">> \o fname

\* "Lung Status : " + result
ReportText(result) == <<"Lung Status : ", result>>

\* The table an earlier run of the server has left in database.db (init_db
\* creates the table only if it does not exist): two scans of Alice and, in
\* between, one of Bob.
EarlierTables ==
    { << Row(1, "Alice", -2, "Normal", 80, UploadPath(<<"old.png">>), ReportText("Normal")),
         Row(2, "Bob", -2, "Malignant", 90, UploadPath(<<"old.png">>), ReportText("Malignant")),
         Row(3, "Alice", -1, "Benign", 70, UploadPath(<<"old.png">>), ReportText("Benign")) >> }

\* A second mutant of InsertRow: the row is written twice.
InsertRowTwice(table, row) == Append(Append(table, row), row)

\* A mutant of InsertRow: the new row replaces the last one.
InsertRowOverLast(table, row) ==
    IF table = <<>> THEN <<row>> ELSE SubSeq(table, 1, Len(table) - 1) \o <<row>>

\* con.commit() of save's INSERT: the row is added after the others.
InsertRow(table, row) == Append(table, row)

\* ------------------------------------------------------------- frames

NoResponse ==
    [status |-> 0, error |-> Absent, details |-> Absent, prediction |-> Absent,
     confidence |-> -1, report |-> <<>>, treatment |-> Absent,
     lifestyle |-> Absent, heatmap |-> <<>>, ai_doctor |-> Absent,
     body |-> <<>>]

\* The frame of a thread that runs no handler.
Idle ==
    [pc |-> "idle", route |-> "none", name |-> "", filename |-> "",
     bytes |-> "", fname |-> <<>>, img |-> None, result |-> "", conf |-> -1,
     heat |-> <<>>, con |-> "none", save_con |-> "none", rows |-> <<>>, history_text |-> <<>>,
     prompt |-> <<>>, outcome |-> NoOutcome, ai_report |-> Absent,
     pending |-> <<>>, response |-> NoResponse]

\* A handler that has returned: its locals are gone, its response stands.
Done(f, response) ==
    [Idle EXCEPT !.pc = "done", !.route = f.route, !.response = response]

ErrorResponse(status, error, details) ==
    [NoResponse EXCEPT !.status = status, !.error = error, !.details = details]

\* predict's except clause.
Failed(exc) == ErrorResponse(500, "Failed", exc)

\* The idle thread that takes the next request.
NextWorker(w) ==
    /\ req[w].pc = "idle"
    /\ \A v \in Workers : v < w => req[v].pc # "idle"
    /\ started < MaxReqs

Init ==
    /\ variant \in Variants
    /\ OPENAI_KEY \in KeyValues
    /\ random \in Draws
    /\ variant = "root" => OPENAI_KEY = None
    /\ now = 0
    /\ ticks = 0
    /\ uploads = << >>
    /\ heatmaps = << >>
    /\ reports = << >>
    /\ patients \in EarlierTables
    /\ sqlite_sequence = Len(patients)
    /\ writer = NoWriter
    /\ req = [w \in Workers |-> Idle]
    /\ started = 0
    /\ completed = 0

\* ------------------------------------------------------------- the clock

\* The time that can have passed since the clock was last read: none, a
\* second, a minute.
Elapse == {0, 1, SecondsPerMinute}

\* datetime.now() after d more seconds; the clock advances MaxTicks times.
ClockAfter(d) == d = 0 \/ ticks < MaxTicks

Advance(d) ==
    /\ ClockAfter(d)
    /\ now' = now + d
    /\ ticks' = IF d = 0 THEN ticks ELSE ticks + 1

\* ------------------------------------------------------------- /predict

\* file.save(path) raises when the path is the upload directory itself.
SaveRaises(fname) == Len(fname) = 1 /\ fname[1] = ""

\* A mutant of FileSave: nothing is written.
FileSaveNothing(files, fname, bytes) == files

\* file.save(path): the bytes are written to the path, over a file that is
\* there already.
FileSave(files, fname, bytes) == (fname :> bytes) @@ files

\* predict up to file.save: the form is read, the upload is stored (the
\* root names it after the time read d seconds after the last reading).
Upload(w, name_in, file, d) ==
    /\ NextWorker(w)
    /\ variant = "backend" => d = 0
    /\ Advance(d)
    /\ started' = started + 1
    /\ LET name == IF name_in = Absent THEN "Unknown" ELSE name_in
           fname == UploadName(variant, now', file.filename)
           f == [Idle EXCEPT !.route = "predict", !.name = name]
       IN  IF file = NoFile
           THEN /\ req' = [req EXCEPT ![w] = Done(f, ErrorResponse(400, "No file", Absent))]
                /\ UNCHANGED uploads
           ELSE IF SaveRaises(fname)
           THEN /\ req' = [req EXCEPT ![w] = Done(f, Failed("IsADirectoryError"))]
                /\ UNCHANGED uploads
           ELSE /\ req' = [req EXCEPT ![w] =
                              [f EXCEPT !.pc = "saved", !.filename = file.filename,
                                        !.bytes = file.bytes, !.fname = fname]]
                /\ uploads' = FileSave(uploads, fname, file.bytes)
    /\ UNCHANGED << variant, OPENAI_KEY, random, heatmaps, reports,
                    patients, sqlite_sequence, writer, completed >>

\* img = cv2.imread(path), the None test, and predict_ai, which takes the
\* draws of the random source and leaves it with its next ones.
Decode(w) ==
    /\ req[w].pc = "saved"
    /\ random' \in Draws
    /\ LET f == req[w]
           img == imread(uploads[f.fname])
           p == predict_ai(random[1], random[2])
       IN  req' = [req EXCEPT ![w] =
                      IF img = None
                      THEN Done(f, ErrorResponse(400, "Invalid Image", Absent))
                      ELSE [f EXCEPT !.pc = "classified", !.img = img,
                                     !.result = p.result, !.conf = p.conf]]
    /\ UNCHANGED << variant, OPENAI_KEY, now, ticks, uploads, heatmaps, reports,
                    patients, sqlite_sequence, writer, started, completed >>

\* heat = make_heatmap(img, fname): the overlay is written to HEAT.
Heatmap(w) ==
    /\ req[w].pc = "classified"
    /\ LET f == req[w]
       IN  IF CanEncode(f.fname)
           THEN /\ heatmaps' = (HeatName(f.fname) :> Overlay(f.img)) @@ heatmaps
                /\ req' = [req EXCEPT ![w] =
                              [f EXCEPT !.pc = "overlaid", !.heat = HeatName(f.fname),
                                        !.img = None, !.bytes = ""]]
           ELSE /\ req' = [req EXCEPT ![w] = Done(f, Failed("cv2.error"))]
                /\ UNCHANGED heatmaps
    /\ UNCHANGED << variant, OPENAI_KEY, random, now, ticks, uploads, reports,
                    patients, sqlite_sequence, writer, started, completed >>

\* backend: the history query, up to fetchall; the connection is open.
HistoryQuery(w) ==
    /\ variant = "backend"
    /\ req[w].pc = "overlaid"
    /\ req' = [req EXCEPT ![w].pc = "history", ![w].con = "open",
                          ![w].rows = SelectByName(patients, req[w].name)]
    /\ UNCHANGED << variant, OPENAI_KEY, random, now, ticks, uploads, heatmaps, reports,
                    patients, sqlite_sequence, writer, started, completed >>

\* A mutant of HistoryClose: the connection is left open.
HistoryCloseMissing(f) == f

\* backend: con.close() after fetchall.
HistoryClose(f) == [f EXCEPT !.con = "closed"]

\* backend: con.close(), the transcript, and ai_medical_report up to
\* requests.post (or its return when no key is configured).
AdvisoryCall(w) ==
    /\ req[w].pc = "history"
    /\ LET f == req[w]
           text == HistoryText(f.rows)
           g == [HistoryClose(f) EXCEPT !.rows = <<>>, !.history_text = text]
       IN  req' = [req EXCEPT ![w] =
                      IF ~KeyMissing(OPENAI_KEY)
                      THEN [g EXCEPT !.pc = "posted",
                                     !.prompt = Prompt(f.name, f.result, f.conf, text)]
                      ELSE [g EXCEPT !.pc = "advised",
                                     !.ai_report = NotConfiguredText]]
    /\ UNCHANGED << variant, OPENAI_KEY, random, now, ticks, uploads, heatmaps, reports,
                    patients, sqlite_sequence, writer, started, completed >>

\* backend: requests.post comes back and ai_medical_report returns.
AdvisoryReply(w, o) ==
    /\ req[w].pc = "posted"
    /\ LET f == req[w]
           res == TryPost(o)
       IN  req' = [req EXCEPT ![w] =
                      IF res.raised
                      THEN Done(f, Failed(res.value))
                      ELSE [f EXCEPT !.pc = "advised", !.outcome = o,
                                     !.ai_report = res.value, !.prompt = <<>>,
                                     !.history_text = <<>>]]
    /\ UNCHANGED << variant, OPENAI_KEY, random, now, ticks, uploads, heatmaps, reports,
                    patients, sqlite_sequence, writer, started, completed >>

\* A mutant of CanWrite: INSERT does not wait for the lock.
CanWriteAnyTime(w) == TRUE

\* SQLite lets one connection at a time write: INSERT waits for the lock.
CanWrite(w) == writer = NoWriter

\* A mutant of BeforeSave: the backend saves right after the overlay.
BeforeSaveEarly == "overlaid"

\* The pc at which predict calls save.
BeforeSave == IF variant = "backend" THEN "advised" ELSE "overlaid"

\* save up to cur.execute: the row is inserted in the connection's open
\* transaction, under the write lock; AUTOINCREMENT gives the id.
SaveInsert(w, d) ==
    /\ req[w].pc = BeforeSave
    /\ CanWrite(w)
    /\ Advance(d)
    /\ writer' = w
    /\ LET f == req[w]
           row == Row(sqlite_sequence + 1, f.name, DateStr(now'), f.result, f.conf,
                      UploadPath(f.fname), ReportText(f.result))
       IN  req' = [req EXCEPT ![w].pc = "inserted", ![w].save_con = "open",
                             ![w].pending = <<row>>]
    /\ UNCHANGED << variant, OPENAI_KEY, random, uploads, heatmaps, reports,
                    patients, sqlite_sequence, started, completed >>

\* A mutant of Completed: the treatment depends on the label.
CompletedByLabel(f) ==
    [NoResponse EXCEPT
        !.status = 200, !.prediction = f.result, !.confidence = f.conf,
        !.report = ReportText(f.result),
        !.treatment = IF f.result = "Malignant" THEN "Consult Oncologist"
                      ELSE "Consult Pulmonologist",
        !.lifestyle = "No Smoking, Exercise", !.heatmap = f.heat,
        !.ai_doctor = f.ai_report]

\* The JSON body predict returns after save.
Completed(f) ==
    [NoResponse EXCEPT
        !.status = 200, !.prediction = f.result, !.confidence = f.conf,
        !.report = ReportText(f.result), !.treatment = "Consult Pulmonologist",
        !.lifestyle = "No Smoking, Exercise", !.heatmap = f.heat,
        !.ai_doctor = f.ai_report]

\* con.commit(), con.close() and predict's return.
SaveCommit(w) ==
    /\ req[w].pc = "inserted"
    /\ LET f == req[w]
           row == f.pending[1]
       IN  /\ patients' = InsertRow(patients, row)
           /\ sqlite_sequence' = row.id
           /\ req' = [req EXCEPT ![w] = Done(f, Completed(f))]
    /\ writer' = IF writer = w THEN NoWriter ELSE writer
    /\ completed' = completed + 1
    /\ UNCHANGED << variant, OPENAI_KEY, random, now, ticks, uploads, heatmaps, reports,
                    started >>

\* ------------------------------------------------------ the other routes

\* SELECT * FROM patients: the rows as tuples, in column order.
SelectAll(table) ==
    [i \in 1..Len(table) |->
        << table[i].id, table[i].name, table[i].date, table[i].result,
           table[i].confidence, table[i].image, table[i].report >>]

\* A mutant of HistoryItem: the image and the report change places.
HistoryItemSwapped(r) ==
    [id |-> r[1], name |-> r[2], date |-> r[3], result |-> r[4],
     confidence |-> r[5], image |-> r[7], report |-> r[6]]

\* The dictionary history builds from a fetched tuple.
HistoryItem(r) ==
    [id |-> r[1], name |-> r[2], date |-> r[3], result |-> r[4],
     confidence |-> r[5], image |-> r[6], report |-> r[7]]

\* The JSON list /history returns for a table.
HistoryList(table) ==
    LET rows == SelectAll(table) IN [i \in 1..Len(rows) |-> HistoryItem(rows[i])]

Ok(body) == [NoResponse EXCEPT !.status = 200, !.body = body]

\* /history
History(w) ==
    /\ NextWorker(w)
    /\ started' = started + 1
    /\ req' = [req EXCEPT ![w] =
                  Done([Idle EXCEPT !.route = "history"], Ok(HistoryList(patients)))]
    /\ UNCHANGED << variant, OPENAI_KEY, random, now, ticks, uploads, heatmaps, reports,
                    patients, sqlite_sequence, writer, completed >>

\* The names a client asks /heatmap for: the overlays written, and one
\* that was never written.
HeatInputs == DOMAIN heatmaps \cup { HeatName(<<"missing.png">>) }

\* /heatmap/<name>: send_file raises for a file that does not exist, which
\* Flask answers with 500.
Heat(w, name) ==
    /\ NextWorker(w)
    /\ started' = started + 1
    /\ req' = [req EXCEPT ![w] =
                  Done([Idle EXCEPT !.route = "heatmap"],
                       IF name \in DOMAIN heatmaps
                       THEN Ok(heatmaps[name])
                       ELSE ErrorResponse(500, "Internal Server Error", Absent))]
    /\ UNCHANGED << variant, OPENAI_KEY, random, now, ticks, uploads, heatmaps, reports,
                    patients, sqlite_sequence, writer, completed >>

MsgInputs == {"cough?", Absent}

\* backend /chat: request.json["msg"] raises KeyError outside any try.
ChatBackend(msg) ==
    IF msg = Absent
    THEN ErrorResponse(500, "Internal Server Error", Absent)
    ELSE Ok([reply |-> <<"Please consult doctor regarding: ", msg>>])

\* root /chat: one call of the chat service inside a try; the status of the
\* answer is not looked at.
ChatRoot(msg, o) ==
    IF msg = Absent \/ o.kind = "raise" \/ ~o.body.json
    THEN Ok([reply |-> <<"AI unavailable. Consult doctor.">>])
    ELSE IF ~o.body.has_choices
    THEN Ok([reply |-> <<"AI service error">>])
    ELSE IF Len(o.body.choices) = 0
    THEN Ok([reply |-> <<"AI unavailable. Consult doctor.">>])
    ELSE Ok([reply |-> <<o.body.choices[1]>>])

\* /chat
Chat(w, msg, o) ==
    /\ NextWorker(w)
    /\ started' = started + 1
    /\ req' = [req EXCEPT ![w] =
                  Done([Idle EXCEPT !.route = "chat"],
                       IF variant = "backend" THEN ChatBackend(msg)
                       ELSE ChatRoot(msg, o))]
    /\ UNCHANGED << variant, OPENAI_KEY, random, now, ticks, uploads, heatmaps, reports,
                    patients, sqlite_sequence, writer, completed >>

\* SELECT * FROM patients WHERE id=? and fetchone: the tuples found.
SelectById(table, pid) ==
    LET rows == SelectAll(table)
    IN  SelectSeq(rows, LAMBDA r : r[1] = pid)

\* f"{x*100:.2f}" of a confidence x given in hundredths.
Percent2f(conf) == <<conf, ".", "00">>

\* The lines generate_pdf draws for a fetched tuple.
PdfLines(r) ==
    << <<"Name : ", r[2]>>, <<"Date : ", r[3]>>, <<"Result : ", r[4]>>,
       <<"Confidence : ">> \o Percent2f(r[5]) \o <<"%">>,
       <<"Treatment : Consult Doctor">>, <<"Lifestyle : Healthy Diet">>,
       <<"Doctor Advice : Regular Checkup">> >>

\* The ids a client asks /generate_pdf for.
PidInputs == 1..(sqlite_sequence + 1)

\* /generate_pdf/<pid>: the backend answers with a fixed message; the root
\* looks the row up and writes report_<pid>.pdf.
GeneratePdf(w, pid) ==
    /\ NextWorker(w)
    /\ started' = started + 1
    /\ LET f == [Idle EXCEPT !.route = "generate_pdf"]
           found == SelectById(patients, pid)
       IN  IF variant = "backend"
           THEN /\ req' = [req EXCEPT ![w] = Done(f, Ok([msg |-> "Use browser download"]))]
                /\ UNCHANGED reports
           ELSE IF found = <<>>
           THEN /\ req' = [req EXCEPT ![w] = Done(f, Ok([error |-> "No record"]))]
                /\ UNCHANGED reports
           ELSE /\ req' = [req EXCEPT ![w] =
                              Done(f, Ok([file |-> <<"report_", pid, ".pdf">>,
                                          lines |-> PdfLines(found[1])]))]
                /\ reports' = (pid :> PdfLines(found[1])) @@ reports
    /\ UNCHANGED << variant, OPENAI_KEY, random, now, ticks, uploads, heatmaps,
                    patients, sqlite_sequence, writer, completed >>

\* The response is sent; the thread is free for the next request.
Respond(w) ==
    /\ req[w].pc = "done"
    /\ req' = [req EXCEPT ![w] = Idle]
    /\ UNCHANGED << variant, OPENAI_KEY, random, now, ticks, uploads, heatmaps, reports,
                    patients, sqlite_sequence, writer, started, completed >>

Next ==
    \/ \E w \in Workers, n \in NameInputs, file \in Uploads \cup {NoFile}, d \in Elapse :
          Upload(w, n, file, d)
    \/ \E w \in Workers : Decode(w)
    \/ \E w \in Workers : Heatmap(w)
    \/ \E w \in Workers : HistoryQuery(w)
    \/ \E w \in Workers : AdvisoryCall(w)
    \/ \E w \in Workers, o \in NetOutcomes : AdvisoryReply(w, o)
    \/ \E w \in Workers, d \in Elapse : SaveInsert(w, d)
    \/ \E w \in Workers : SaveCommit(w)
    \/ \E w \in Workers : History(w)
    \/ \E w \in Workers : \E name \in HeatInputs : Heat(w, name)
    \/ \E w \in Workers, msg \in MsgInputs, o \in NetOutcomes : Chat(w, msg, o)
    \/ \E w \in Workers : \E pid \in PidInputs : GeneratePdf(w, pid)
    \/ \E w \in Workers : Respond(w)

Spec == Init /\ [][Next]_vars

\* ------------------------------------------------- predict_ai, every draw

\* The server as started, with the random source at any of its draws.
PredictInit ==
    /\ variant \in Variants
    /\ OPENAI_KEY \in KeyValues
    /\ variant = "root" => OPENAI_KEY = None
    /\ random \in AllDraws
    /\ now = 0
    /\ ticks = 0
    /\ uploads = << >>
    /\ heatmaps = << >>
    /\ reports = << >>
    /\ patients \in EarlierTables
    /\ sqlite_sequence = Len(patients)
    /\ writer = NoWriter
    /\ req = [w \in Workers |-> Idle]
    /\ started = 0
    /\ completed = 0

\* One /predict request with a well-formed image, up to predict_ai.
PredictNext ==
    \/ Upload(1, "Alice", [filename |-> "scan.png", bytes |-> "IMG_A"], 0)
    \/ Decode(1)

PredictSpec == PredictInit /\ [][PredictNext]_vars

\* ------------------------------------------------------------ properties

\* The rows the table held when the server started.
Earlier == CHOOSE t \in EarlierTables : TRUE

\* The advisory call failed: it raised, the status is not 200, or the body
\* has no choices[0].message.content to read.
CallFailed(o) ==
    \/ o.kind = "raise"
    \/ o.kind = "http" /\ o.status # 200
    \/ o.kind = "http" /\ (~o.body.json \/ ~o.body.has_choices \/ o.body.choices = <<>>)

\* C1: whatever the advisory call comes back with, the request goes on from
\* the call to save and from save to the Completed response, and its row is
\* appended to the table: no step of a request that has posted its advisory
\* call ends in the Failed response.
C1_AdvisoryNeverAborts ==
    [][\A w \in Workers :
          LET f == req[w]
              g == req'[w]
          IN  (f.route = "predict" /\ g # f) =>
                /\ f.pc = "posted" => g.pc = "advised" /\ g.outcome \in NetOutcomes
                /\ f.pc = "advised" => g.pc = "inserted" /\ Len(g.pending) = 1
                /\ f.pc = "inserted" =>
                      /\ g.pc = "done"
                      /\ g.response.status = 200
                      /\ g.response.error = Absent
                      /\ g.response.prediction = f.result
                      /\ g.response.confidence = f.conf
                      /\ g.response.heatmap = f.heat
                      /\ g.response.ai_doctor = f.ai_report
                      /\ patients' = Append(patients, f.pending[1])]_vars

\* C1, its case: a request whose advisory call raised has returned the
\* Completed response and the last row of the table is its record.
C1_Witness ==
    \E w \in Workers :
        /\ req[w].pc = "done"
        /\ req[w].response.status = 200
        /\ req[w].response.ai_doctor = ServiceErrorText
        /\ Len(patients) > Len(Earlier)
        /\ patients[Len(patients)].result = req[w].response.prediction

\* C2: a request reaches the Failed response only from Received (before the
\* upload is stored) or Decoded (before imread has returned a grid): never
\* from a later stage.
C2_FailedOnlyBeforeDecode ==
    [][\A w \in Workers :
          LET f == req[w]
              g == req'[w]
          IN  (f.route \in {"none", "predict"} /\ f.pc # "done" /\ g.pc = "done"
                /\ g.route = "predict" /\ g.response.error = "Failed")
                 => f.pc \in {"idle", "saved"}]_vars

\* The values a request has when all its stages before save have run.
StagesDone(v, g, files, overlays) ==
    /\ g.fname \in DOMAIN files
    /\ g.result \in {Classes[i] : i \in 1..Len(Classes)}
    /\ g.conf >= 0
    /\ g.heat = HeatName(g.fname)
    /\ g.heat \in DOMAIN overlays
    /\ v = "backend" => g.con = "closed" /\ g.ai_report # Absent
    /\ g.pending[1].name = g.name
    /\ g.pending[1].result = g.result
    /\ g.pending[1].confidence = g.conf
    /\ g.pending[1].image = UploadPath(g.fname)
    /\ g.pending[1].report = ReportText(g.result)

\* C3: a row is inserted only by a request all of whose earlier stages have
\* produced their values, the table changes only when such a request
\* commits its row and returns the Completed response, and a request that
\* returns an error response has inserted nothing.
C3_PersistLast ==
    [][/\ \A w \in Workers :
             LET f == req[w]
                 g == req'[w]
             IN  /\ Len(g.pending) = 1 => StagesDone(variant, g, uploads', heatmaps')
                 /\ (g # f /\ g.pc = "done" /\ g.route = "predict"
                       /\ g.response.status # 200)
                      => /\ patients' = patients
                         /\ f.pending = <<>>
                         /\ f.pc \in {"idle", "saved", "classified"}
       /\ patients' # patients =>
             \E w \in Workers :
                 /\ req[w].pc = "inserted"
                 /\ req'[w].pc = "done"
                 /\ req'[w].response.status = 200
                 /\ patients' = Append(patients, req[w].pending[1])]_vars

\* C3, its case: of two requests one has returned Completed and one an
\* error response, and the table holds one new row.
C3_Witness ==
    \E w, v \in Workers :
        /\ req[w].pc = "done" /\ req[w].response.status = 200
        /\ req[w].route = "predict"
        /\ req[v].pc = "done" /\ req[v].response.status \in {400, 500}
        /\ req[v].route = "predict"
        /\ Len(patients) = Len(Earlier) + 1

\* C4: a request whose uploaded bytes cannot be decoded as an image leaves
\* the decode step with the Invalid Image response, and the table is as it
\* was.
C4_UndecodableRejected ==
    [][\A w \in Workers :
          LET f == req[w]
              g == req'[w]
          IN  (f.pc = "saved" /\ imread(f.bytes) = None /\ g # f) =>
                /\ g.pc = "done"
                /\ g.response.status = 400
                /\ g.response.error = "Invalid Image"
                /\ patients' = patients]_vars

\* C5: the ids of the rows are pairwise distinct and grow along the table,
\* a row waiting for its commit has the next id, and the table (and so the
\* list /history returns) has exactly one more row for every save that has
\* returned.
C5_DistinctIds ==
    /\ \A i, j \in 1..Len(patients) : i < j => patients[i].id < patients[j].id
    /\ \A w \in Workers :
          Len(req[w].pending) = 1 =>
             \A i \in 1..Len(patients) : patients[i].id < req[w].pending[1].id
    /\ Len(HistoryList(patients)) = Len(Earlier) + completed
    /\ SubSeq(patients, 1, Len(Earlier)) = Earlier

\* C5, its case: two saves at once: one holds the write lock with its row
\* inserted, the other is at its call of save and waits to insert.
C5_Witness ==
    \E w, v \in Workers :
        /\ req[w].pc = "inserted"
        /\ writer = w
        /\ req[v].pc = BeforeSave
        /\ req[v].route = "predict"

\* The lines of a transcript for the rows of the first k rows of the table
\* that carry the name: the j-th line is the row with j - 1 such rows
\* before it.
IsTranscriptOf(text, name, k) ==
    LET idx == {i \in 1..k : patients[i].name = name}
    IN  /\ Len(text) = Cardinality(idx)
        /\ \A i \in idx :
              LET j == Cardinality({h \in idx : h <= i})
              IN  text[j] = <<patients[i].date, " : ", patients[i].result, "\n">>

\* C6: the prompt a request posts carries, after the patient's name, one
\* line "<date> : <label>" for every row of that name the table held at the
\* request's query, in the order of the table, and after them the request's
\* own result and confidence; the request's own row is not among them (it
\* is not inserted yet).
C6_Transcript ==
    \A w \in Workers :
        req[w].pc = "posted" =>
           LET f == req[w]
               p == f.prompt
           IN  /\ Len(p) = 9
               /\ p[2] = f.name
               /\ p[3] = "History:"
               /\ \E k \in Len(Earlier)..Len(patients) : IsTranscriptOf(p[4], f.name, k)
               /\ p[5] = "Current Result: " /\ p[6] = f.result
               /\ p[7] = "Confidence: " /\ p[8] = f.conf
               /\ f.pending = <<>>

\* C6, its case: Alice's request has posted a prompt with her two earlier
\* scans, Bob's scan between them left out.
C6_Witness ==
    \E w \in Workers :
        /\ req[w].pc = "posted"
        /\ req[w].name = "Alice"
        /\ Len(req[w].prompt[4]) >= 2
        /\ req[w].prompt[4][1][3] = "Normal"
        /\ req[w].prompt[4][2][3] = "Benign"

\* C7: while a request's advisory call is in flight the request holds no
\* open connection and not the write lock, and the other thread's history
\* query or insert is not kept waiting.
C7_NoLockAcrossCall ==
    \A w \in Workers :
        req[w].pc = "posted" =>
           /\ req[w].con = "closed"
           /\ req[w].save_con = "none"
           /\ writer # w
           /\ \A v \in Workers \ {w} :
                 /\ req[v].pc = "overlaid" => ENABLED HistoryQuery(v)
                 /\ req[v].pc = "advised" => ENABLED SaveInsert(v, 0)

\* C7, its case: one request's call is in flight while the other request
\* has its row inserted under the write lock.
C7_Witness ==
    \E w, v \in Workers :
        /\ req[w].pc = "posted"
        /\ req[v].pc = "inserted"
        /\ writer = v

\* C8: every step of every route leaves the rows the table holds in place
\* and unchanged: the table only grows at its end.
C8_AppendOnly ==
    [][/\ Len(patients') >= Len(patients)
       /\ SubSeq(patients', 1, Len(patients)) = patients]_vars

\* C8, its case: a row has been added in this run and a read route has
\* answered after it.
C8_Witness ==
    \E w \in Workers :
        /\ req[w].pc = "done"
        /\ req[w].route \in {"history", "generate_pdf", "heatmap", "chat"}
        /\ Len(patients) = Len(Earlier) + 1
        /\ SubSeq(patients, 1, Len(Earlier)) = Earlier

\* C9: what ai_medical_report has returned is a non-empty string, whatever
\* the network call came back with.
C9_NonEmptyAdvice ==
    \A w \in Workers :
        req[w].pc \in {"advised", "inserted"} => req[w].ai_report \notin {"", None}

\* The string ai_medical_report returns for HTTP 500.
FallbackOf500 == TryPost(NetHttp(500, BodyNotJson)).value

\* C10 as stated: after a failed call, ai_doctor is the one fallback string
\* of HTTP 500, whatever the kind of failure.
C10_OneFallback ==
    \A w \in Workers :
        (req[w].pc \in {"advised", "inserted"} /\ CallFailed(req[w].outcome))
           => req[w].ai_report = FallbackOf500

\* C10 as amended: after a failed call, ai_doctor of the Completed response
\* is "AI Doctor temporarily unavailable." when the status was not 200 and
\* "AI Doctor service error." when the call raised or the body of a 200
\* answer could not be read; the response carries the prediction, the
\* confidence and the report.
C10_TwoFallbacks ==
    [][\A w \in Workers :
          LET f == req[w]
              g == req'[w]
          IN  (f.pc = "inserted" /\ g.pc = "done" /\ CallFailed(f.outcome)) =>
                /\ g.response.status = 200
                /\ g.response.ai_doctor =
                      IF f.outcome.kind = "http" /\ f.outcome.status # 200
                      THEN "AI Doctor temporarily unavailable."
                      ELSE "AI Doctor service error."
                /\ g.response.prediction = f.result
                /\ g.response.confidence = f.conf
                /\ g.response.report = <<"Lung Status : ", f.result>>]_vars

\* C10, its case: a Completed response after an HTTP 500 of the advisory
\* service.
C10_Witness ==
    \E w \in Workers :
        /\ req[w].pc = "done"
        /\ req[w].response.status = 200
        /\ req[w].response.ai_doctor = UnavailableText
        /\ req[w].response.prediction \in {"Normal", "Benign", "Malignant"}

\* C11: with no key configured (the variable unset or empty) a backend
\* request never posts an advisory call: it builds no prompt and awaits no
\* answer, ai_medical_report returns "AI API Key not configured.", and the
\* request goes on to insert its row, commit it and return the Completed
\* response with that string as ai_doctor.
C11_NotConfigured ==
    [][\A w \in Workers :
          LET f == req[w]
              g == req'[w]
          IN  (variant = "backend" /\ OPENAI_KEY \in {None, ""}
                 /\ f.route = "predict" /\ g # f) =>
                /\ g.pc # "posted" /\ g.prompt = <<>> /\ g.outcome = NoOutcome
                /\ f.pc = "history" =>
                      g.pc = "advised" /\ g.ai_report = "AI API Key not configured."
                /\ f.pc = "advised" =>
                      /\ g.pc = "inserted"
                      /\ g.ai_report = "AI API Key not configured."
                      /\ Len(g.pending) = 1
                /\ f.pc = "inserted" =>
                      /\ g.pc = "done"
                      /\ g.response.status = 200
                      /\ g.response.ai_doctor = "AI API Key not configured."
                      /\ patients' = Append(patients, f.pending[1])]_vars

\* C11, its case: the key is set to the empty string, and a request has
\* returned the Completed response with the not-configured string after
\* its row was committed.
C11_Witness ==
    \E w \in Workers :
        /\ OPENAI_KEY = ""
        /\ req[w].pc = "done"
        /\ req[w].response.status = 200
        /\ req[w].response.ai_doctor = NotConfiguredText
        /\ Len(patients) = Len(Earlier) + 1
        /\ patients[Len(patients)].result = req[w].response.prediction

\* The threads whose /predict request returns the Completed response in
\* this step.
Returning(f, g) ==
    {w \in Workers : /\ f[w].route = "predict" /\ f[w].pc # "done"
                     /\ g[w].pc = "done" /\ g[w].response.status = 200}

\* C12: the table holds one row more than at the start for every /predict
\* request that has returned the Completed response; a step in which a
\* request returns Completed appends exactly one row, that request's, and
\* leaves the request with nothing more to write; every other step leaves
\* the number of rows as it is.
C12_OneRecordPerRun ==
    [][/\ Len(patients) = Len(Earlier) + completed
       /\ completed' = completed + Cardinality(Returning(req, req'))
       /\ Len(patients') = Len(patients) + Cardinality(Returning(req, req'))
       /\ \A w \in Returning(req, req') :
             /\ Len(req[w].pending) = 1
             /\ patients' = Append(patients, req[w].pending[1])
             /\ req'[w].pending = <<>>
             /\ \A i \in 1..Len(patients) : patients[i].id # req[w].pending[1].id]_vars

\* C12, its case: two /predict requests ran interleaved, both have returned
\* the Completed response, and the table holds two new rows.
C12_Witness ==
    /\ \A w \in Workers :
          /\ req[w].pc = "done"
          /\ req[w].route = "predict"
          /\ req[w].response.status = 200
    /\ completed = 2
    /\ Len(patients) = Len(Earlier) + 2
    /\ patients[Len(patients)].id # patients[Len(patients) - 1].id

\* The closed interval of each label, in hundredths.
InInterval(result, conf) ==
    /\ result = "Normal" => 70 <= conf /\ conf <= 95
    /\ result = "Benign" => 60 <= conf /\ conf <= 85
    /\ result = "Malignant" => 75 <= conf /\ conf <= 98

\* C13: for the draws the random source is about to give, predict_ai
\* returns one of the three labels and a confidence, rounded to hundredths,
\* within that label's closed interval; and so are the label and the
\* confidence of a request that has run predict_ai.
C13_ConfidenceInInterval ==
    /\ LET p == predict_ai(random[1], random[2])
       IN  /\ p.result \in {"Normal", "Benign", "Malignant"}
           /\ InInterval(p.result, p.conf)
    /\ \A w \in Workers :
          req[w].pc = "classified" =>
             /\ req[w].result \in {"Normal", "Benign", "Malignant"}
             /\ InInterval(req[w].result, req[w].conf)

\* C13, its case: predict_ai has returned Benign with the upper end of its
\* interval, 0.85.
C13_Witness ==
    \E w \in Workers :
        /\ req[w].pc = "classified"
        /\ req[w].result = "Benign"
        /\ req[w].conf = 85

\* The dictionary /history gives for a row has the values save was called
\* with.
ListedAsWritten(item, id, name, date, result, conf, path, report) ==
    /\ item.id = id /\ item.name = name /\ item.date = date
    /\ item.result = result /\ item.confidence = conf
    /\ item.image = path /\ item.report = report

\* C14: the row save inserts carries the arguments of the call and the
\* time of the call; once it is committed, the lookup by its id finds that
\* one row with these values, column by column, and the list of /history
\* has one item with its id, with these values under their names; no later
\* step changes what the lookup by an assigned id finds; and what /history
\* and the root's /generate_pdf answer is taken from the rows as they are.
C14_RoundTrip ==
    [][\A w \in Workers :
          LET f == req[w]
              g == req'[w]
          IN  /\ (f.pc = BeforeSave /\ g.pc = "inserted") =>
                    g.pending[1] = Row(sqlite_sequence + 1, f.name, DateStr(now'),
                                       f.result, f.conf, UploadPath(f.fname),
                                       ReportText(f.result))
              /\ (f.pc = "inserted" /\ g.pc = "done") =>
                    LET r == f.pending[1]
                        fetched == SelectById(patients', r.id)
                        listed == HistoryList(patients')
                        at == {i \in 1..Len(listed) : listed[i].id = r.id}
                    IN  /\ fetched = << <<r.id, f.name, r.date, f.result, f.conf,
                                          UploadPath(f.fname), ReportText(f.result)>> >>
                        /\ Cardinality(at) = 1
                        /\ \A i \in at :
                              ListedAsWritten(listed[i], r.id, f.name, r.date, f.result,
                                              f.conf, UploadPath(f.fname),
                                              ReportText(f.result))
              /\ \A pid \in 1..sqlite_sequence :
                    SelectById(patients', pid) = SelectById(patients, pid)
              /\ (f.pc = "idle" /\ g.pc = "done" /\ g.route = "history") =>
                    /\ Len(g.response.body) = Len(patients)
                    /\ \A i \in 1..Len(patients) :
                          ListedAsWritten(g.response.body[i], patients[i].id,
                                          patients[i].name, patients[i].date,
                                          patients[i].result, patients[i].confidence,
                                          patients[i].image, patients[i].report)
              /\ (f.pc = "idle" /\ g.pc = "done" /\ g.route = "generate_pdf"
                    /\ variant = "root") =>
                    \A i \in 1..Len(patients) :
                        ("file" \in DOMAIN g.response.body
                           /\ g.response.body.file = <<"report_", patients[i].id, ".pdf">>) =>
                           /\ g.response.body.lines[1] = <<"Name : ", patients[i].name>>
                           /\ g.response.body.lines[2] = <<"Date : ", patients[i].date>>
                           /\ g.response.body.lines[3] = <<"Result : ", patients[i].result>>
                           /\ g.response.body.lines[4][2] = patients[i].confidence]_vars

\* C14, its case: /history has answered after Alice's row was committed in
\* this run, and the last item of its list is that row, read back.
C14_Witness ==
    \E w \in Workers :
        /\ req[w].pc = "done"
        /\ req[w].route = "history"
        /\ Len(req[w].response.body) = Len(Earlier) + 1
        /\ LET item == req[w].response.body[Len(Earlier) + 1]
           IN  /\ item.id = Len(Earlier) + 1
               /\ item.name = "Alice"
               /\ item.image = UploadPath(UploadName(variant, now, "scan.png"))
               /\ item.report = ReportText(item.result)
               /\ item.confidence \in {70, 98}

\* The answer of /generate_pdf is the not-found outcome.
IsNotFound(response) ==
    /\ "error" \in DOMAIN response.body
    /\ response.body.error = "No record"

\* C15: /generate_pdf for an id no row has answers with the not-found
\* outcome, writes no document and leaves the table as it is; for the id
\* of a row it does not answer with the not-found outcome.
C15_NotFound ==
    [][\A w \in Workers : \A pid \in PidInputs :
          GeneratePdf(w, pid) =>
             IF \E i \in 1..Len(patients) : patients[i].id = pid
             THEN ~IsNotFound(req'[w].response)
             ELSE /\ IsNotFound(req'[w].response)
                  /\ patients' = patients
                  /\ reports' = reports]_vars

\* C15 for the root server alone, where generate_pdf looks the row up.
C15_NotFoundInRoot ==
    [][variant = "root" =>
         \A w \in Workers : \A pid \in PidInputs :
            GeneratePdf(w, pid) =>
               IF \E i \in 1..Len(patients) : patients[i].id = pid
               THEN /\ ~IsNotFound(req'[w].response)
                    /\ req'[w].response.body.file = <<"report_", pid, ".pdf">>
               ELSE /\ IsNotFound(req'[w].response)
                    /\ patients' = patients
                    /\ reports' = reports]_vars

\* C16: when a /predict request returns the Completed response, the row it
\* has just committed is the last of the table, and the response's
\* prediction and confidence are that row's result and confidence, the
\* report of both is "Lung Status : " followed by that label, and the
\* treatment and the lifestyle are "Consult Pulmonologist" and "No Smoking,
\* Exercise" for every label.
C16_ResponseAgreesWithRecord ==
    [][\A w \in Workers :
          LET f == req[w]
              g == req'[w]
          IN  (f.route = "predict" /\ f.pc # "done" /\ g.pc = "done"
                 /\ g.response.status = 200) =>
                LET row == patients'[Len(patients')]
                IN  /\ Len(patients') = Len(patients) + 1
                    /\ row.name = f.name
                    /\ g.response.prediction = row.result
                    /\ g.response.prediction \in {"Normal", "Benign", "Malignant"}
                    /\ g.response.confidence = row.confidence
                    /\ g.response.report = <<"Lung Status : ", row.result>>
                    /\ row.report = <<"Lung Status : ", row.result>>
                    /\ g.response.treatment = "Consult Pulmonologist"
                    /\ g.response.lifestyle = "No Smoking, Exercise"]_vars

\* C16, its case: two requests have returned Completed, one Normal and one
\* Malignant, with the same treatment and lifestyle, and the table holds
\* their two rows.
C16_Witness ==
    \E w, v \in Workers :
        /\ req[w].pc = "done" /\ req[w].response.prediction = "Normal"
        /\ req[v].pc = "done" /\ req[v].response.prediction = "Malignant"
        /\ req[w].response.treatment = req[v].response.treatment
        /\ req[w].response.lifestyle = req[v].response.lifestyle
        /\ Len(patients) = Len(Earlier) + 2
        /\ {patients[Len(patients)].report, patients[Len(patients) - 1].report}
              = {req[w].response.report, req[v].response.report}

\* The pcs of a /predict request between file.save and its return.
InFlight == {"saved", "classified", "overlaid", "history", "posted", "advised", "inserted"}

\* C17: the grid a request decodes is the decoding of the bytes it
\* uploaded (and it is rejected as an invalid image only when its own bytes
\* do not decode); and no step writes other bytes to the file of a request
\* that is still running or to a file the image column of a row designates.
C17_OwnBytes ==
    [][/\ \A w \in Workers :
             LET f == req[w]
                 g == req'[w]
             IN  /\ (f.pc = "saved" /\ g.pc = "classified") => g.img = imread(f.bytes)
                 /\ (f.pc = "saved" /\ g.pc = "done") => imread(f.bytes) = None
                 /\ (f.pc \in InFlight /\ g.pc \in InFlight) =>
                       uploads'[f.fname] = uploads[f.fname]
       /\ \A i \in 1..Len(patients) :
             LET file == Tail(patients[i].image)
             IN  file \in DOMAIN uploads => uploads'[file] = uploads[file]]_vars

\* The rows of the table that carry the name.
Named(table, name) == {i \in 1..Len(table) : table[i].name = name}

\* C18: in the backend the rows a request's history query fetches are the
\* date and result of the rows of its name that are committed at the query,
\* in table order; the transcript in the prompt it posts has one line for
\* each fetched row, whatever has been committed since; a commit by the
\* other thread while the request is between its query and its own insert
\* adds the other's row to the table and leaves the request's rows and
\* prompt as they are; and the request's own commit appends its row.
C18_QueryThenAppend ==
    [][\A w \in Workers :
          LET f == req[w]
              g == req'[w]
          IN  /\ (f.pc = "overlaid" /\ g.pc = "history") =>
                    LET idx == Named(patients, f.name)
                    IN  /\ Len(g.rows) = Cardinality(idx)
                        /\ \A i \in idx :
                              g.rows[Cardinality({h \in idx : h <= i})]
                                 = <<patients[i].date, patients[i].result>>
                        /\ g.pending = <<>>
              /\ (f.pc = "history" /\ g.pc = "posted") =>
                    /\ Len(g.prompt[4]) = Len(f.rows)
                    /\ \A j \in 1..Len(f.rows) :
                          g.prompt[4][j] = <<f.rows[j][1], " : ", f.rows[j][2], "\n">>
              /\ \A v \in Workers \ {w} :
                    (f.pc \in {"history", "posted", "advised"}
                       /\ req[v].pc = "inserted" /\ req'[v].pc = "done") =>
                          /\ g = f
                          /\ patients' = Append(patients, req[v].pending[1])
              /\ (f.pc = "inserted" /\ g.pc = "done") =>
                    patients' = Append(patients, f.pending[1])]_vars

\* C18, its case: Alice's request has posted a transcript of her two
\* earlier scans, and the other request, also Alice's, has committed a
\* third row since the query: the table has three rows of her name, the
\* transcript two lines.
C18_Witness ==
    \E w, v \in Workers :
        /\ w # v
        /\ req[w].pc = "posted"
        /\ req[w].name = "Alice"
        /\ Len(req[w].prompt[4]) = 2
        /\ req[v].pc = "done"
        /\ req[v].route = "predict"
        /\ req[v].response.status = 200
        /\ Len(patients) = Len(Earlier) + 1
        /\ patients[Len(patients)].name = "Alice"
        /\ Cardinality(Named(patients, "Alice")) = 3

\* C18, the end of its case: both requests of the same name have returned
\* Completed and both rows are in the table.
C18_BothPersisted ==
    /\ \A w \in Workers :
          /\ req[w].pc = "done" /\ req[w].route = "predict"
          /\ req[w].response.status = 200
          /\ req[w].response.ai_doctor \notin {Absent, NotConfiguredText}
    /\ variant = "backend"
    /\ Cardinality(Named(patients, "Alice")) = 4

\* C19: predict writes the upload to its path before it decodes it: after
\* file.save the file is in the upload directory and nothing is decoded
\* yet; the step that rejects the request as an invalid image leaves that
\* file where it is and changes neither the upload directory, nor the
\* table, nor the heatmaps; and no step of any route removes a file from
\* the upload directory.
C19_RejectedUploadStays ==
    [][/\ \A w \in Workers :
             LET f == req[w]
                 g == req'[w]
             IN  /\ (f.pc = "idle" /\ g.pc = "saved") =>
                       /\ g.fname \in DOMAIN uploads'
                       /\ uploads'[g.fname] = g.bytes
                       /\ g.img = None
                 /\ (f.pc = "saved" /\ g.pc = "done"
                       /\ g.response.error = "Invalid Image") =>
                       /\ f.fname \in DOMAIN uploads'
                       /\ imread(uploads'[f.fname]) = None
                       /\ uploads' = uploads
                       /\ patients' = patients
                       /\ heatmaps' = heatmaps
                       /\ f.pending = <<>>
       /\ \A name \in DOMAIN uploads : name \in DOMAIN uploads']_vars

\* C19, its case: the only request so far was rejected as an invalid image;
\* its file is in the upload directory, with bytes that do not decode, and
\* there is no new row and no heatmap.
C19_Witness ==
    \E w \in Workers :
        /\ req[w].pc = "done"
        /\ req[w].response.status = 400
        /\ req[w].response.error = "Invalid Image"
        /\ started = 1
        /\ UploadName(variant, now, "scan.png") \in DOMAIN uploads
        /\ imread(uploads[UploadName(variant, now, "scan.png")]) = None
        /\ patients = Earlier
        /\ heatmaps = << >>

====
